---- MODULE Spec2Model ----
(***************************************************************************)
(* A model of audioio/playaudio.py: the PlayAudio session, its selection   *)
(* of an audio backend in open(), the per-backend play and close           *)
(* implementations, beep, and the scoped use "with open_audio() as audio". *)
(*                                                                         *)
(* The native libraries (pyaudio, ossaudiodev, os) are the environment:    *)
(* whether one of their calls fails is an input of the handler that makes  *)
(* the call.  Every handler records the calls it made into the native      *)
(* libraries, the warnings it emitted and the error it raised in the       *)
(* variable call, so that properties of one call can be stated on the      *)
(* state the call leaves behind.                                           *)
(*                                                                         *)
(* The source is Python 2 (xrange, integer "/"); the names warnings,       *)
(* pyaudio and ossaudiodev reach it through "from audiomodules import *".  *)
(* Numbers are small integers: a rate is in samples per second, a duration *)
(* in seconds and a ramp in half seconds, so that ramp*rate can fall on a  *)
(* half.  Spec follows one instance through its calls, with buffers as     *)
(* shapes; FacadeSpec follows the module-level play and beep; PipelineSpec,*)
(* RampSpec and StderrSpec follow the sample pipeline, the ramp loop of    *)
(* beep and the descriptor juggling of open_pyaudio on concrete values.    *)
(***************************************************************************)
EXTENDS Integers, Sequences, FiniteSets

VARIABLES
    audio_modules,  \* audiomodules.audio_modules: library name -> usable
    self,           \* the fields of the PlayAudio instance
    pc,             \* where the program using the session is
    call,           \* what the last handler did
    handle,         \* the module's global handle: 0 for None, else the
                    \* number of the PlayAudio instance it refers to
    sessions,       \* the number of PlayAudio() calls that returned an instance
    fd,             \* the file descriptors of the process around open_pyaudio
    pipeline,       \* a buffer of samples on its way to the device
    ramp            \* the ramp loop of one beep

\* the state of the module-level functions, and of the three computations
\* that are specified on their own
facade == <<handle, sessions>>
pure == <<fd, pipeline, ramp>>

vars == <<audio_modules, self, pc, call, handle, sessions, fd, pipeline, ramp>>

---------------------------------------------------------------------------
(* Bounds of the model *)

MaxFrames == 1      \* buffers have 0 or MaxFrames frames
MaxChannels == 2    \* two-dimensional buffers have 1..MaxChannels channels
MaxRate == 1        \* sampling rates are 0 or MaxRate samples per second
MaxDuration == 1    \* beep durations are 0 or MaxDuration seconds
MaxRampHalves == 2  \* beep ramps are -1..MaxRampHalves half seconds
MaxLen == 20        \* PipelineSpec: buffers of samples have 1..MaxLen frames
MaxCells == 4       \* PipelineSpec: one period of a buffer has at most
                    \* MaxCells samples
MaxSample == 1      \* PipelineSpec: samples are -MaxSample..MaxSample
MaxTone == 3        \* RampSpec: tones last 0..MaxTone seconds
MaxToneRate == 3    \* RampSpec: tones have 1..MaxToneRate samples a second
MaxToneRamp == 5    \* RampSpec: ramps last 0..MaxToneRamp half seconds
MaxFd == 4          \* StderrSpec: the process has the descriptors 0..MaxFd

---------------------------------------------------------------------------
(* Values *)

Libs == {"pyaudio", "ossaudiodev"}

\* the frame counts of the buffers played: play distinguishes a buffer
\* without frames from one with frames
FrameCounts == {0, MaxFrames}

\* data.shape: <<n>> for a flat buffer, <<n, c>> for n frames of c channels
Shapes == {<<n>> : n \in FrameCounts}
            \cup {<<n, c>> : n \in FrameCounts, c \in 1..MaxChannels}

\* the rates of the tones of beep: beep divides by the rate, so that it
\* distinguishes the rate 0 from a positive one
Rates == {0, MaxRate}

\* the rates of the buffers played: play hands the rate to the device and
\* does nothing else with it
PlayRates == {0 - 1, 0, MaxRate}

\* the durations of the tones of beep: a tone of duration 0 has no samples
Durations == {0, MaxDuration}
RampHalves == -1..MaxRampHalves

\* where the environment makes open_pyaudio fail: nowhere; while it
\* redirects stderr, before pyaudio.PyAudio() is called (os.dup, os.close,
\* os.open); in pyaudio.PyAudio(); or after self.handle is assigned, while
\* it restores stderr (os.close .. os.remove).  open_ossaudiodev makes no
\* native call.
InitFaults(lib) ==
    IF lib = "pyaudio" THEN {"none", "redirect", "create", "restore"}
                       ELSE {"none"}

\* what the warning filters of the process do with the warning of open():
\* show it (the action "always", or "default" for a warning not yet shown),
\* drop it ("ignore", or "default" for one already shown), or raise it as
\* an error ("error", as under python -W error)
WarningActions == {"show", "ignore", "error"}

\* what one run of open() meets: where each initializer fails, and what the
\* filters do with the warning; no failure where open() does not run or the
\* library is not usable, and "show" where no warning is issued
InitFaultChoices(mods, opens) ==
    {flt \in [Libs \cup {"warning"} ->
                {"none", "redirect", "create", "restore"}
                    \cup WarningActions] :
        /\ \A lib \in Libs : flt[lib] \in (IF opens /\ mods[lib]
                                           THEN InitFaults(lib) ELSE {"none"})
        /\ flt["warning"] \in (IF \E lib \in Libs : flt[lib] # "none"
                               THEN WarningActions ELSE {"show"})}

\* where the environment makes the native device fail during playback
PlayFaults == {"none", "open", "config", "write"}

\* one call into a native library: its name, the library, the channel
\* count it is given, the shape of the buffer it is given, whether it goes
\* through a PyAudio object already terminated, and whether it fails
Native(f, lib, channels, shape, dead, failed) ==
    [f |-> f, lib |-> lib, channels |-> channels, shape |-> shape,
     dead |-> dead, failed |-> failed]

\* the result of a method that does nothing but leave the instance as st:
\* the instance, the error raised, the native calls made, the warnings
\* emitted, the initializers invoked, whether open() ran, the
\* implementation of close that ran
Quiet(st) ==
    [st |-> st, raised |-> "none", native |-> <<>>,
     warned |-> <<>>, attempted |-> <<>>, opened |-> FALSE,
     closed |-> "none"]

Raise(r, error) == [r EXCEPT !.raised = error]

Did(r, n) == [r EXCEPT !.native = Append(r.native, n)]

---------------------------------------------------------------------------
(* PlayAudio *)

\* PlayAudio.__init__, before it calls open().  terminated says whether
\* terminate() was called on the PyAudio object self.handle refers to, lost
\* whether the instance dropped its reference to an open stream or device,
\* selected whether open() has returned and close() was not called since
NewInstance ==
    [handle |-> "None", terminated |-> FALSE,
     stream |-> "None", osshandle |-> "None",
     _do_play |-> "_play", close |-> "_close",
     lost |-> FALSE, selected |-> FALSE]

\* an assignment to self.stream or self.osshandle drops the reference to
\* the stream or device the field referred to, which may still be open
Lost(st, field) == st.lost \/ st[field] = "open"

\* PlayAudio._close
_close(st) == Quiet(st)

\* a default implementation that refuses to play
_play_raising(st, data, rate) == Raise(Quiet(st), "NotImplementedError")

\* PlayAudio._play
_play(st, data, rate) == Quiet(st)

\* PlayAudio.open_pyaudio
open_pyaudio(mods, st, fault) ==
    IF ~ mods["pyaudio"]
    THEN Raise(Quiet(st), "ImportError")
    ELSE IF fault = "redirect"
    THEN Raise(Did(Quiet(st), Native("os", "pyaudio", 0, <<>>, FALSE, TRUE)),
               "OSError")
    ELSE IF fault = "create"
    THEN Raise(Did(Quiet(st),
                   Native("PyAudio", "pyaudio", 0, <<>>, FALSE, TRUE)),
               "Exception")
    ELSE LET created == [st EXCEPT !.handle = "PyAudio",
                                   !.terminated = FALSE,
                                   !.stream = "None",
                                   !.lost = Lost(st, "stream")]
             made == Did(Quiet(created),
                         Native("PyAudio", "pyaudio", 0, <<>>, FALSE, FALSE))
         IN  IF fault = "restore"
             THEN Raise(Did(made,
                            Native("os", "pyaudio", 0, <<>>, FALSE, TRUE)),
                        "OSError")
             ELSE [made EXCEPT !.st._do_play = "_play_pyaudio",
                               !.st.close = "_close_pyaudio"]

\* PlayAudio.open_ossaudiodev
open_ossaudiodev(mods, st, fault) ==
    IF ~ mods["ossaudiodev"]
    THEN Raise(Quiet(st), "ImportError")
    ELSE Quiet([st EXCEPT !.handle = "True",
                          !.terminated = FALSE,
                          !.osshandle = "None",
                          !.lost = Lost(st, "osshandle"),
                          !._do_play = "_play_ossaudiodev",
                          !.close = "_close_ossaudiodev"])

\* the list audio_open of PlayAudio.open: the library names, in order
audio_open == <<"pyaudio", "ossaudiodev">>

\* the open function listed with lib in audio_open
open_device(lib, mods, st, fault) ==
    IF lib = "pyaudio" THEN open_pyaudio(mods, st, fault)
                       ELSE open_ossaudiodev(mods, st, fault)

\* "if not audio_modules[lib]: continue" in PlayAudio.open
usable(mods, lib) == mods[lib]

\* "except: warnings.warn(...)" in PlayAudio.open: the warning is shown,
\* dropped, or raised as UserWarning out of the except clause
warn(r, lib, action) ==
    CASE action = "show" -> [r EXCEPT !.warned = Append(r.warned, lib)]
      [] action = "ignore" -> r
      [] OTHER -> Raise(r, "UserWarning")

\* the loop of PlayAudio.open from candidate i on; r is the result so far
RECURSIVE open_from(_, _, _, _)
open_from(i, mods, flt, r) ==
    IF i > Len(audio_open) THEN r
    ELSE LET lib == audio_open[i]
         IN  IF ~ usable(mods, lib)
             THEN open_from(i + 1, mods, flt, r)
             ELSE LET o == open_device(lib, mods, r.st, flt[lib])
                      tried == [r EXCEPT !.st = o.st,
                                         !.native = r.native \o o.native,
                                         !.attempted = Append(r.attempted, lib)]
                      w == warn(tried, lib, flt["warning"])
                  IN  IF o.raised = "none" THEN tried
                      ELSE IF w.raised # "none" THEN w
                      ELSE open_from(i + 1, mods, flt, w)

\* PlayAudio.open, which raises only the error warnings.warn raises
open(mods, st, flt) ==
    LET r == open_from(1, mods, flt, [Quiet(st) EXCEPT !.opened = TRUE])
    IN  IF r.raised = "none" THEN [r EXCEPT !.st.selected = TRUE] ELSE r

\* "channels = 1; if len(data.shape) > 1: channels = data.shape[1]"
channels(data) == IF Len(data) > 1 THEN data[2] ELSE 1

\* the channel count of an array of the given shape, as the device sees it
ChannelsOf(shape) == IF Len(shape) > 1 THEN shape[2] ELSE 1

\* "rawdata = data - np.mean(data, axis=0); rawdata /= np.max(rawdata)*2.0":
\* the shape is kept; np.max raises ValueError on an array without elements
normalize(data) ==
    IF data[1] = 0 THEN [raised |-> "ValueError", shape |-> data]
                   ELSE [raised |-> "none", shape |-> data]

\* the padding of _play_pyaudio: np.vstack of n frames and 11*n/10 zero
\* frames when channels > 1, else np.hstack of the buffer and 11*n/10 zeros,
\* which raises ValueError when the buffer is not one-dimensional
pad(data) ==
    LET n == data[1]
        extra == (11 * n) \div 10
    IN  IF channels(data) > 1
        THEN [raised |-> "none", shape |-> <<n + extra, data[2]>>]
        ELSE IF Len(data) = 1
        THEN [raised |-> "none", shape |-> <<n + extra>>]
        ELSE [raised |-> "ValueError", shape |-> data]

\* PlayAudio._play_pyaudio
_play_pyaudio(st, data, rate, fault) ==
    LET dead == st.terminated
        ch == channels(data)
        r0 == Quiet(st)
        r1 == Did(r0, Native("open", "pyaudio", ch, <<>>, dead, fault = "open"))
        r2 == [r1 EXCEPT !.st.stream = "open",
                         !.st.lost = Lost(st, "stream")]
        nd == normalize(data)
        pd == pad(nd.shape)
        r3 == Did(r2, Native("write", "pyaudio", ChannelsOf(pd.shape),
                             pd.shape, dead, fault = "write"))
        r4 == Did(Did(r3, Native("stop_stream", "pyaudio", 0, <<>>, dead, FALSE)),
                  Native("close", "pyaudio", 0, <<>>, dead, FALSE))
    IN  IF fault = "open" THEN Raise(r1, "IOError")
        ELSE IF nd.raised # "none" THEN Raise(r2, nd.raised)
        ELSE IF pd.raised # "none" THEN Raise(r2, pd.raised)
        ELSE IF fault = "write" THEN Raise(r3, "IOError")
        ELSE [r4 EXCEPT !.st.stream = "None"]

\* PlayAudio._close_pyaudio
_close_pyaudio(st) ==
    LET dead == st.terminated
        r0 == Quiet(st)
        r1 == IF st.stream # "None"
              THEN Did(r0, Native("close", "pyaudio", 0, <<>>, dead, FALSE))
              ELSE r0
        r2 == Did(r1, Native("terminate", "pyaudio", 0, <<>>, dead, FALSE))
    IN  [r2 EXCEPT !.st.stream = "None",
                   !.st.terminated = TRUE]

\* PlayAudio._play_ossaudiodev
_play_ossaudiodev(st, data, rate, fault) ==
    LET ch == channels(data)
        r0 == Quiet(st)
        r1 == Did(r0, Native("open", "ossaudiodev", 0, <<>>, FALSE, fault = "open"))
        r2 == [r1 EXCEPT !.st.osshandle = "open",
                         !.st.lost = Lost(st, "osshandle")]
        r3 == Did(r2, Native("config", "ossaudiodev", ch, <<>>, FALSE,
                             fault = "config"))
        nd == normalize(data)
        r4 == Did(r3, Native("write", "ossaudiodev", ChannelsOf(nd.shape),
                             nd.shape, FALSE, fault = "write"))
        r5 == Did(r4, Native("close", "ossaudiodev", 0, <<>>, FALSE, FALSE))
    IN  IF fault = "open" THEN Raise(r1, "IOError")
        ELSE IF fault = "config" THEN Raise(r3, "IOError")
        ELSE IF nd.raised # "none" THEN Raise(r3, nd.raised)
        ELSE IF fault = "write" THEN Raise(r4, "IOError")
        ELSE [r5 EXCEPT !.st.osshandle = "None"]

\* PlayAudio._close_ossaudiodev
_close_ossaudiodev(st) ==
    LET r0 == Quiet([st EXCEPT !.handle = "None", !.terminated = FALSE])
        r1 == IF st.osshandle # "None"
              THEN Did(r0, Native("close", "ossaudiodev", 0, <<>>, FALSE, FALSE))
              ELSE r0
    IN  [r1 EXCEPT !.st.osshandle = "None"]

\* the native failures the implementation bound to self._do_play can meet
DeviceFaults(impl) ==
    CASE impl = "_play_pyaudio" -> {"none", "open", "write"}
      [] impl = "_play_ossaudiodev" -> {"none", "open", "config", "write"}
      [] OTHER -> {"none"}

\* self._do_play(data, rate)
_do_play(st, data, rate, fault) ==
    CASE st._do_play = "_play_pyaudio" -> _play_pyaudio(st, data, rate, fault)
      [] st._do_play = "_play_ossaudiodev" -> _play_ossaudiodev(st, data, rate, fault)
      [] OTHER -> _play(st, data, rate)

\* self.close()
close(st) ==
    LET r == CASE st.close = "_close_pyaudio" -> _close_pyaudio(st)
               [] st.close = "_close_ossaudiodev" -> _close_ossaudiodev(st)
               [] OTHER -> _close(st)
    IN  [r EXCEPT !.closed = st.close, !.st.selected = FALSE]

\* r, then, unless r raised, the method result q on the instance r left
Then(r, q) ==
    IF r.raised # "none" THEN r ELSE
    [st |-> q.st, raised |-> q.raised, native |-> r.native \o q.native,
     warned |-> r.warned \o q.warned, attempted |-> r.attempted \o q.attempted,
     opened |-> r.opened \/ q.opened,
     closed |-> IF q.closed # "none" THEN q.closed ELSE r.closed]

\* play with the call of self._do_play wrapped in "try: ... except: pass"
play_swallowing(mods, st, data, rate, flt, fault) ==
    LET o == IF st.handle = "None" THEN open(mods, st, flt) ELSE Quiet(st)
    IN  Raise(Then(o, _do_play(o.st, data, rate, fault)), "none")

\* PlayAudio.play
play(mods, st, data, rate, flt, fault) ==
    LET o == IF st.handle = "None" THEN open(mods, st, flt) ELSE Quiet(st)
    IN  Then(o, _do_play(o.st, data, rate, fault))

\* int(np.round(p / 2.0)): numpy rounds halves to the even neighbour
round_half(p) ==
    LET k == p \div 2
    IN  IF p % 2 = 0 THEN k
        ELSE IF k % 2 = 0 THEN k ELSE k + 1

\* len(np.arange(0.0, duration, 1.0/rate)) for a rate other than 0
arange_len(duration, rate) ==
    IF duration * rate > 0 THEN duration * rate ELSE 0

\* the error the synthesis of PlayAudio.beep raises for a ramp of rampH
\* half seconds: 1.0/rate divides by zero; the loop "for k in xrange(nr)"
\* reads data[k], which is out of range as soon as nr exceeds len(data)
synthesis_error(duration, rate, rampH) ==
    IF rate = 0 THEN "ZeroDivisionError"
    ELSE LET n == arange_len(duration, rate)
             nr == round_half(rampH * rate)
         IN  IF nr > 0 /\ nr > n THEN "IndexError" ELSE "none"

\* PlayAudio.beep with a ramp of rampH half seconds
beep(mods, st, duration, rate, rampH, flt, fault) ==
    LET error == synthesis_error(duration, rate, rampH)
    IN  IF error # "none"
        THEN Raise(Quiet(st), error)
        ELSE play(mods, st, <<arange_len(duration, rate)>>, rate, flt, fault)

\* PlayAudio.__del__
__del__(st) == close(st)

\* the with statement drops the error that left its block when __exit__
\* returns a true value: "return value" returns the error itself
suppressed(returned) == returned # "none"

\* an __exit__ that returns without calling __del__
__exit__without_del(st, value) == [r |-> Quiet(st), returned |-> value]

\* PlayAudio.__exit__: the result of __del__ and the value returned
__exit__(st, value) == [r |-> __del__(st), returned |-> value]

\* "if handle is None:" in the module-level play and beep
needs_instance(h) == h = 0

\* "if handle is None: handle = PlayAudio()": the constructor runs on a
\* new instance, or the instance the handle refers to is used as it is
global_instance(mods, h, st, flt) ==
    IF needs_instance(h) THEN open(mods, NewInstance, flt) ELSE Quiet(st)

\* the module-level play: the constructor's open() meets flt, the open()
\* that play runs when the handle of the instance is None meets flt2
module_play(mods, h, st, data, rate, flt, flt2, fault) ==
    LET c == global_instance(mods, h, st, flt)
    IN  Then(c, play(mods, c.st, data, rate, flt2, fault))

\* the module-level beep
module_beep(mods, h, st, duration, rate, rampH, flt, flt2, fault) ==
    LET c == global_instance(mods, h, st, flt)
    IN  Then(c, beep(mods, c.st, duration, rate, rampH, flt2, fault))

---------------------------------------------------------------------------
(* The program using one PlayAudio instance *)

NoFaults == [pyaudio |-> "none", ossaudiodev |-> "none", warning |-> "show"]

\* pc: "start" before the instance is made, "plain" after audio = PlayAudio(),
\* "with" inside the block of "with open_audio() as audio", "unwinding" while
\* an error raised inside the block leaves it, "after" once the block is
\* left.  The interpreter never calls __del__ on its own: the bound methods
\* stored in self.close and self._do_play keep the instance in a reference
\* cycle, and Python 2 does not finalize the objects of a cycle.
Live == {"plain", "with", "after"}

\* what a handler leaves in call: its name and arguments, the value it
\* returned, the instance before it (its handle and bindings), and what it
\* did
Called(op, data, rate, duration, rampH, flt, value, r) ==
    [op |-> op, data |-> data, rate |-> rate, duration |-> duration,
     rampH |-> rampH, flt |-> IF r.opened THEN flt ELSE NoFaults,
     value |-> value, returned |-> "none",
     pre |-> [handle |-> self.handle, terminated |-> self.terminated,
              _do_play |-> self._do_play, close |-> self.close,
              selected |-> self.selected],
     raised |-> r.raised, native |-> r.native, warned |-> r.warned,
     attempted |-> r.attempted, opened |-> r.opened, closed |-> r.closed]

\* before any call
NoCall ==
    [op |-> "none", data |-> <<>>, rate |-> 0,
     duration |-> 0, rampH |-> 0, flt |-> NoFaults, value |-> "none",
     returned |-> "none",
     pre |-> [handle |-> "None", terminated |-> FALSE,
              _do_play |-> "_play", close |-> "_close", selected |-> FALSE],
     raised |-> "none", native |-> <<>>, warned |-> <<>>,
     attempted |-> <<>>, opened |-> FALSE, closed |-> "none"]

\* the module after import, no instance made
Imported ==
    /\ audio_modules \in [Libs -> BOOLEAN]
    /\ self = NewInstance
    /\ pc = "start"
    /\ call = NoCall
    /\ handle = 0
    /\ sessions = 0

\* the computations specified on their own, not started
Idle ==
    /\ fd = <<>>
    /\ pipeline = <<>>
    /\ ramp = <<>>

Init == Imported /\ Idle

\* audio = PlayAudio()  or  with open_audio() as audio:  when __init__
\* raises, no instance is bound and the block is not entered
Construct(scoped, flt) ==
    /\ pc = "start"
    /\ LET r == open(audio_modules, NewInstance, flt)
       IN  /\ call' = Called("__init__", <<>>, 0, 0, 0, flt, "none", r)
           /\ IF r.raised = "none"
              THEN /\ self' = r.st
                   /\ pc' = IF scoped THEN "with" ELSE "plain"
                   /\ sessions' = sessions + 1
              ELSE UNCHANGED <<self, pc, sessions>>
    /\ UNCHANGED <<audio_modules, handle, pure>>

\* an error raised inside the with block starts to leave the block
Raised(r) == IF pc = "with" /\ r.raised # "none" THEN "unwinding" ELSE pc

\* audio.open()
Open(flt) ==
    /\ pc \in Live
    /\ LET r == open(audio_modules, self, flt)
       IN  /\ self' = r.st
           /\ call' = Called("open", <<>>, 0, 0, 0, flt, "none", r)
           /\ pc' = Raised(r)
    /\ UNCHANGED <<audio_modules, facade, pure>>

\* audio.open_pyaudio(), called by the program: its errors reach the caller
OpenPyaudio(fault) ==
    /\ pc \in Live
    /\ LET r == open_pyaudio(audio_modules, self, fault)
       IN  /\ self' = r.st
           /\ call' = Called("open_pyaudio", <<>>, 0, 0, 0, NoFaults, "none", r)
           /\ pc' = Raised(r)
    /\ UNCHANGED <<audio_modules, facade, pure>>

\* audio.open_ossaudiodev(), called by the program
OpenOssaudiodev ==
    /\ pc \in Live
    /\ LET r == open_ossaudiodev(audio_modules, self, "none")
       IN  /\ self' = r.st
           /\ call' = Called("open_ossaudiodev", <<>>, 0, 0, 0, NoFaults,
                             "none", r)
           /\ pc' = Raised(r)
    /\ UNCHANGED <<audio_modules, facade, pure>>

\* the implementation play will call: the one bound, after open() if the
\* handle is None
Bound(flt) ==
    LET o == open(audio_modules, self, flt)
    IN  IF self.handle # "None" THEN self._do_play
        ELSE IF o.raised = "none" THEN o.st._do_play
        ELSE "none"

\* audio.play(data, rate)
Play(data, rate, flt, fault) ==
    /\ pc \in Live
    /\ LET r == play(audio_modules, self, data, rate, flt, fault)
       IN  /\ self' = r.st
           /\ call' = Called("play", data, rate, 0, 0, flt, "none", r)
           /\ pc' = Raised(r)
    /\ UNCHANGED <<audio_modules, facade, pure>>

\* audio.beep(duration, frequency, rate, ramp)
Beep(duration, rate, rampH, flt, fault) ==
    /\ pc \in Live
    /\ LET r == beep(audio_modules, self, duration, rate, rampH, flt, fault)
       IN  /\ self' = r.st
           /\ call' = Called("beep", <<>>, rate, duration, rampH, flt, "none", r)
           /\ pc' = Raised(r)
    /\ UNCHANGED <<audio_modules, facade, pure>>

\* audio.close()
Close ==
    /\ pc \in Live
    /\ LET r == close(self)
       IN  /\ self' = r.st
           /\ call' = Called("close", <<>>, 0, 0, 0, NoFaults, "none", r)
    /\ UNCHANGED <<audio_modules, pc, facade, pure>>

\* the with block is left: normally or by a return (value "none"), or by
\* the error that was raised inside it
ScopeExit ==
    /\ pc \in {"with", "unwinding"}
    /\ LET value == IF pc = "unwinding" THEN call.raised ELSE "none"
           x == __exit__(self, value)
       IN  /\ self' = x.r.st
           /\ call' = [Called("__exit__", <<>>, 0, 0, 0, NoFaults, value, x.r)
                            EXCEPT !.returned = x.returned]
    /\ pc' = "after"
    /\ UNCHANGED <<audio_modules, facade, pure>>

\* the calls the program can make, with every input of each
Constructs ==
    \E scoped \in BOOLEAN, flt \in InitFaultChoices(audio_modules, TRUE) :
        Construct(scoped, flt)

Opens == \E flt \in InitFaultChoices(audio_modules, TRUE) : Open(flt)

OpensPyaudio ==
    \E fault \in (IF audio_modules["pyaudio"] THEN InitFaults("pyaudio")
                                              ELSE {"none"}) :
        OpenPyaudio(fault)

Plays ==
    \E data \in Shapes, rate \in PlayRates :
        \E flt \in InitFaultChoices(audio_modules, self.handle = "None") :
            \E fault \in DeviceFaults(Bound(flt)) : Play(data, rate, flt, fault)

Beeps ==
    \E duration \in Durations, rate \in Rates, rampH \in RampHalves :
        IF synthesis_error(duration, rate, rampH) = "none"
        THEN \E flt \in InitFaultChoices(audio_modules, self.handle = "None") :
                \E fault \in DeviceFaults(Bound(flt)) :
                    Beep(duration, rate, rampH, flt, fault)
        ELSE Beep(duration, rate, rampH, NoFaults, "none")

Next ==
    \/ Constructs
    \/ Opens
    \/ OpensPyaudio
    \/ OpenOssaudiodev
    \/ Plays
    \/ Beeps
    \/ Close
    \/ ScopeExit

Spec == Init /\ [][Next]_vars

---------------------------------------------------------------------------
(* The program using the module-level play and beep *)

\* what "if handle is None: handle = PlayAudio()" leaves when the
\* constructor's open() meets flt
Made(flt) == global_instance(audio_modules, handle, self, flt)

\* the global handle and the count of instances after a module-level call
\* whose constructor met flt: a constructor that raises assigns nothing
Global(flt) ==
    LET made == needs_instance(handle) /\ Made(flt).raised = "none"
    IN  /\ handle' = IF made THEN sessions + 1 ELSE handle
        /\ sessions' = IF made THEN sessions + 1 ELSE sessions

\* whether the play of a module-level call runs open() again
GlobalOpens(flt) ==
    Made(flt).raised = "none" /\ Made(flt).st.handle = "None"

\* the implementation a module-level call will reach
GlobalBound(flt, flt2) ==
    LET st == Made(flt).st
    IN  IF st.handle = "None" THEN open(audio_modules, st, flt2).st._do_play
                              ELSE st._do_play

\* the failures the playback of a module-level call can meet: none when it
\* does not get to the playback
GlobalFaults(flt, flt2, synthesized) ==
    IF synthesized /\ Made(flt).raised = "none"
                   /\ open(audio_modules, Made(flt).st, flt2).raised = "none"
    THEN DeviceFaults(GlobalBound(flt, flt2)) ELSE {"none"}

\* play(data, rate)
ModulePlay(data, rate, flt, flt2, fault) ==
    /\ LET r == module_play(audio_modules, handle, self, data, rate, flt, flt2,
                            fault)
       IN  /\ self' = IF needs_instance(handle) /\ Made(flt).raised # "none"
                      THEN self ELSE r.st
           /\ call' = Called("module.play", data, rate, 0, 0,
                             IF needs_instance(handle) THEN flt ELSE flt2,
                             "none", r)
    /\ Global(flt)
    /\ UNCHANGED <<audio_modules, pc, pure>>

\* beep(duration, frequency, rate, ramp)
ModuleBeep(duration, rate, rampH, flt, flt2, fault) ==
    /\ LET r == module_beep(audio_modules, handle, self, duration, rate, rampH,
                            flt, flt2, fault)
       IN  /\ self' = IF needs_instance(handle) /\ Made(flt).raised # "none"
                      THEN self ELSE r.st
           /\ call' = Called("module.beep", <<>>, rate, duration, rampH,
                             IF needs_instance(handle) THEN flt ELSE flt2,
                             "none", r)
    /\ Global(flt)
    /\ UNCHANGED <<audio_modules, pc, pure>>

ModulePlays ==
    \E data \in Shapes, rate \in PlayRates :
        \E flt \in InitFaultChoices(audio_modules, needs_instance(handle)) :
            \E flt2 \in InitFaultChoices(audio_modules, GlobalOpens(flt)) :
                \E fault \in GlobalFaults(flt, flt2, TRUE) :
                    ModulePlay(data, rate, flt, flt2, fault)

ModuleBeeps ==
    \E duration \in Durations, rate \in Rates, rampH \in RampHalves :
        \E flt \in InitFaultChoices(audio_modules, needs_instance(handle)) :
            \E flt2 \in InitFaultChoices(audio_modules,
                    GlobalOpens(flt)
                    /\ synthesis_error(duration, rate, rampH) = "none") :
                \E fault \in GlobalFaults(flt, flt2,
                        synthesis_error(duration, rate, rampH) = "none") :
                    ModuleBeep(duration, rate, rampH, flt, flt2, fault)

FacadeNext == ModulePlays \/ ModuleBeeps

FacadeSpec == Init /\ [][FacadeNext]_vars

---------------------------------------------------------------------------
(* The sample pipeline of _play_pyaudio and _play_ossaudiodev on values *)

\* A buffer is [flat, frames]: frames is the sequence of its frames, each
\* the sequence of the samples of its channels; a flat buffer has one
\* sample per frame.  Samples are integers.  A sample on its way through
\* the pipeline is the fraction num/den of two integers; 0/0 is the nan
\* that numpy computes for 0.0/0.0.
Samples == (0 - MaxSample)..MaxSample

FramesOf(n, c) == [1..n -> [1..c -> Samples]]

\* the frames and channels of one period: at most MaxCells samples
PeriodShapes ==
    {x \in (1..MaxCells) \X (1..MaxChannels) : x[1] * x[2] <= MaxCells}

\* one period of a signal, flat or two-dimensional
Periods ==
    {[flat |-> TRUE, frames |-> f] :
        f \in UNION {FramesOf(n, 1) : n \in 1..MaxCells}}
    \cup
    {[flat |-> FALSE, frames |-> f] :
        f \in UNION {FramesOf(nc[1], nc[2]) : nc \in PeriodShapes}}

\* the first n frames of the signal that repeats the frames of one period
repeated(frames, n) ==
    [i \in 1..n |-> frames[((i - 1) % Len(frames)) + 1]]

\* the lengths of the buffers longer than one period: 11*n/10 differs from
\* n from 10 frames on
Lengths == {MaxLen \div 2, MaxLen}

\* the buffers played: one period, or a periodic signal of a length in
\* Lengths
Buffers ==
    UNION {{[flat |-> p.flat, frames |-> repeated(p.frames, n)] :
                n \in {Len(p.frames)} \cup Lengths} : p \in Periods}

RECURSIVE SumTo(_, _, _)
SumTo(frames, c, i) ==
    IF i = 0 THEN 0 ELSE frames[i][c] + SumTo(frames, c, i - 1)

\* "data - np.mean(data, axis=0)", times the number n of frames: sample x of
\* channel c becomes n*x minus the sum of the channel
centered(frames) ==
    LET n == Len(frames)
    IN  [i \in 1..n |->
            [c \in 1..Len(frames[1]) |->
                n * frames[i][c] - SumTo(frames, c, n)]]

\* the samples of all frames and channels
Values(frames) ==
    {frames[i][c] : i \in 1..Len(frames), c \in 1..Len(frames[1])}

Max(S) == CHOOSE x \in S : \A y \in S : y <= x

\* "np.max(rawdata)", times the number of frames: the largest sample, not
\* the largest magnitude
peak(frames) == Max(Values(frames))

\* "rawdata /= np.max(rawdata)*2.0": every sample becomes the fraction
\* a / (2 * peak), which is 0/0 when the peak is 0
divided(frames) ==
    LET a == centered(frames)
        m == peak(a)
    IN  [i \in 1..Len(a) |->
            [c \in 1..Len(a[1]) |-> [num |-> a[i][c], den |-> 2 * m]]]

\* np.zeros((k, c))
zeros(k, c) == [i \in 1..k |-> [j \in 1..c |-> [num |-> 0, den |-> 1]]]

\* a padding of as many frames as the buffer has
pad_count_same(n) == n

\* "11*len(rawdata)/10", the number of zero frames _play_pyaudio appends
pad_count(n) == (11 * n) \div 10

\* np.round of the fraction p/q, q > 0: to the nearest integer, a half to
\* the even neighbour
round_fraction(p, q) ==
    LET k == p \div q
        rest == p - k * q
    IN  IF 2 * rest < q THEN k
        ELSE IF 2 * rest > q THEN k + 1
        ELSE IF k % 2 = 0 THEN k ELSE k + 1

\* how a build converts a float that int16 cannot hold: the conversion is
\* undefined in C; it wraps modulo 2^16 (nan becomes 0) or gives -2^15
Casts == {"wrap", "min"}

\* "np.round(2.0**15*rawdata)" of one sample that is not nan
rounded(x) == round_fraction((2 ^ 15) * x.num, x.den)

\* ".astype('i2')" of one rounded sample
astype_i2(x, cast) ==
    IF x.den = 0
    THEN IF cast = "wrap" THEN 0 ELSE 0 - (2 ^ 15)
    ELSE LET v == rounded(x)
         IN  IF 0 - (2 ^ 15) <= v /\ v < 2 ^ 15 THEN v
             ELSE IF cast = "wrap"
             THEN ((v + 2 ^ 15) % (2 ^ 16)) - 2 ^ 15
             ELSE 0 - (2 ^ 15)

\* "np.array(np.round(2.0**15*rawdata)).astype('i2')"
quantized(frames, cast) ==
    [i \in 1..Len(frames) |->
        [c \in 1..Len(frames[i]) |-> astype_i2(frames[i][c], cast)]]

\* what the pipeline hands to the device: the error raised instead, the
\* buffer written, the samples before quantization, whether it divided by 0
Prepared(raised, scaled, flat, cast, by_zero) ==
    [raised |-> raised, flat |-> flat, scaled |-> scaled, cast |-> cast,
     written |-> quantized(scaled, cast), by_zero |-> by_zero]

\* the lines of _play_pyaudio between the opening of the stream and
\* stream.write
prepare_pyaudio(b, cast) ==
    LET n == Len(b.frames)
        c == Len(b.frames[1])
        d == divided(b.frames)
        by_zero == peak(centered(b.frames)) = 0
    IN  IF c > 1
        THEN Prepared("none", d \o zeros(pad_count(n), c), FALSE, cast, by_zero)
        ELSE IF b.flat
        THEN Prepared("none", d \o zeros(pad_count(n), 1), TRUE, cast, by_zero)
        ELSE Prepared("ValueError", <<>>, FALSE, cast, by_zero)

\* the lines of _play_ossaudiodev between the configuration of the device
\* and writeall
prepare_ossaudiodev(b, cast) ==
    Prepared("none", divided(b.frames), b.flat, cast,
             peak(centered(b.frames)) = 0)

prepare(lib, b, cast) ==
    IF lib = "pyaudio" THEN prepare_pyaudio(b, cast)
                       ELSE prepare_ossaudiodev(b, cast)

\* the session variables, unused
Parked ==
    /\ audio_modules = [lib \in Libs |-> TRUE]
    /\ self = NewInstance
    /\ pc = "start"
    /\ call = NoCall
    /\ handle = 0
    /\ sessions = 0

\* a buffer reaches the implementation of play of one library
PipelineInit ==
    /\ Parked
    /\ fd = <<>>
    /\ ramp = <<>>
    /\ pipeline \in {[stage |-> "data", lib |-> lib, data |-> b,
                      out |-> Prepared("none", <<>>, b.flat, "wrap", FALSE)] :
                        lib \in Libs, b \in Buffers}

\* the buffer is prepared and written, or the preparation raises
Prepare(cast) ==
    /\ pipeline.stage = "data"
    /\ pipeline' = [pipeline EXCEPT
                        !.stage = "done",
                        !.out = prepare(pipeline.lib, pipeline.data, cast)]
    /\ UNCHANGED <<audio_modules, self, pc, call, facade, fd, ramp>>

PipelineNext == \E cast \in Casts : Prepare(cast)

PipelineSpec == PipelineInit /\ [][PipelineNext]_vars

---------------------------------------------------------------------------
(* The ramp loop of PlayAudio.beep, one iteration at a time *)

\* the loop "for k in xrange(nr)" over a tone of len(data) samples, before
\* its iteration k; touched are the indices it has used
RampLoop(duration, rate, rampH) ==
    [stage |-> "loop", duration |-> duration, rate |-> rate, rampH |-> rampH,
     len |-> arange_len(duration, rate), nr |-> round_half(rampH * rate),
     k |-> 0, touched |-> {}, raised |-> "none"]

\* numpy accepts the index j of an array of n elements
in_bounds(j, n) == 0 - n <= j /\ j < n

RampInit ==
    /\ Parked
    /\ fd = <<>>
    /\ pipeline = <<>>
    /\ ramp \in {RampLoop(duration, rate, rampH) :
                    duration \in 0..MaxTone, rate \in 1..MaxToneRate,
                    rampH \in 0..MaxToneRamp}

\* one iteration: "data[k] *= ..." and "data[len(data)-k-1] *= ...", either
\* of which raises IndexError for an index numpy does not accept
RampStep ==
    /\ ramp.stage = "loop"
    /\ ramp.k < ramp.nr
    /\ LET first == ramp.k
           second == ramp.len - ramp.k - 1
       IN  ramp' =
            IF ~in_bounds(first, ramp.len)
            THEN [ramp EXCEPT !.stage = "raised", !.raised = "IndexError",
                              !.touched = @ \cup {first}]
            ELSE IF ~in_bounds(second, ramp.len)
            THEN [ramp EXCEPT !.stage = "raised", !.raised = "IndexError",
                              !.touched = @ \cup {first, second}]
            ELSE [ramp EXCEPT !.k = @ + 1,
                              !.touched = @ \cup {first, second}]
    /\ UNCHANGED <<audio_modules, self, pc, call, facade, fd, pipeline>>

\* the loop is over and beep goes on to play the tone
RampDone ==
    /\ ramp.stage = "loop"
    /\ ramp.k >= ramp.nr
    /\ ramp' = [ramp EXCEPT !.stage = "play"]
    /\ UNCHANGED <<audio_modules, self, pc, call, facade, fd, pipeline>>

RampNext == RampStep \/ RampDone

RampSpec == RampInit /\ [][RampNext]_vars

---------------------------------------------------------------------------
(* The file descriptors of the process during open_pyaudio, line by line *)

\* The table gives what each descriptor refers to.  os.dup and os.open
\* return the lowest descriptor that is closed.
Fds == 0..MaxFd

Closed(table) == {f \in Fds : table[f] = "closed"}

\* the descriptor os.dup or os.open returns, -1 when none is left
lowest_free(table) ==
    IF Closed(table) = {} THEN 0 - 1
    ELSE CHOOSE f \in Closed(table) : \A g \in Closed(table) : f <= g

\* the tables a process can call open_pyaudio with: descriptor 2 is its
\* error stream, 0 and 1 are its standard streams unless it closed them,
\* the others are files or closed
Tables ==
    {t \in [Fds -> {"stdin", "stdout", "stderr", "file", "closed"}] :
        /\ t[0] \in {"stdin", "closed"}
        /\ t[1] \in {"stdout", "closed"}
        /\ t[2] = "stderr"
        /\ \A f \in Fds : f > 2 => t[f] \in {"file", "closed"}}

\* the calls of open_pyaudio that can fail whatever the table is
PyAudioFaults == {"none", "os.open", "PyAudio", "os.remove"}

\* open_pyaudio is entered
Entered(avail, table, fail) ==
    [pc |-> "check", avail |-> avail, table |-> table, fail |-> fail,
     oldstderr |-> 0 - 1, tmpfile |-> FALSE, handle |-> "None",
     bound |-> FALSE, raised |-> "none"]

Fails(error) == [fd EXCEPT !.pc = "raised", !.raised = error]

Rest == <<audio_modules, self, pc, call, facade, pipeline, ramp>>

StderrInit ==
    /\ Parked
    /\ pipeline = <<>>
    /\ ramp = <<>>
    /\ fd \in {Entered(avail, table, fail) :
                avail \in BOOLEAN, table \in Tables, fail \in PyAudioFaults}

\* "if not audio_modules['pyaudio']: raise ImportError"
CheckModule ==
    /\ fd.pc = "check"
    /\ fd' = IF fd.avail THEN [fd EXCEPT !.pc = "dup"] ELSE Fails("ImportError")
    /\ UNCHANGED Rest

\* "oldstderr = os.dup(2)"
SaveStderr ==
    /\ fd.pc = "dup"
    /\ LET f == lowest_free(fd.table)
       IN  fd' = IF f < 0 THEN Fails("OSError")
                 ELSE [fd EXCEPT !.pc = "close", !.oldstderr = f,
                                 !.table[f] = fd.table[2]]
    /\ UNCHANGED Rest

\* "os.close(2)"
CloseStderr ==
    /\ fd.pc = "close"
    /\ fd' = [fd EXCEPT !.pc = "open", !.table[2] = "closed"]
    /\ UNCHANGED Rest

\* "os.open(tmpfile, os.O_WRONLY | os.O_CREAT)"
OpenTmpfile ==
    /\ fd.pc = "open"
    /\ LET f == lowest_free(fd.table)
       IN  fd' = IF fd.fail = "os.open" THEN Fails("OSError")
                 ELSE [fd EXCEPT !.pc = "create", !.tmpfile = TRUE,
                                 !.table[f] = "tmpfile"]
    /\ UNCHANGED Rest

\* "self.handle = pyaudio.PyAudio(); self.stream = None"
CreatePyAudio ==
    /\ fd.pc = "create"
    /\ fd' = IF fd.fail = "PyAudio" THEN Fails("IOError")
             ELSE [fd EXCEPT !.pc = "reclose", !.handle = "PyAudio"]
    /\ UNCHANGED Rest

\* the second "os.close(2)", which raises when descriptor 2 is closed
CloseTmpfile ==
    /\ fd.pc = "reclose"
    /\ fd' = IF fd.table[2] = "closed" THEN Fails("OSError")
             ELSE [fd EXCEPT !.pc = "redup", !.table[2] = "closed"]
    /\ UNCHANGED Rest

\* "os.dup(oldstderr)"
RestoreStderr ==
    /\ fd.pc = "redup"
    /\ LET f == lowest_free(fd.table)
       IN  fd' = [fd EXCEPT !.pc = "closeold",
                            !.table[f] = fd.table[fd.oldstderr]]
    /\ UNCHANGED Rest

\* "os.close(oldstderr)"
CloseSaved ==
    /\ fd.pc = "closeold"
    /\ fd' = [fd EXCEPT !.pc = "remove", !.table[fd.oldstderr] = "closed"]
    /\ UNCHANGED Rest

\* "os.remove(tmpfile)"
RemoveTmpfile ==
    /\ fd.pc = "remove"
    /\ fd' = IF fd.fail = "os.remove" THEN Fails("OSError")
             ELSE [fd EXCEPT !.pc = "bind", !.tmpfile = FALSE]
    /\ UNCHANGED Rest

\* "self._do_play = self._play_pyaudio; self.close = self._close_pyaudio;
\* return self"
BindPyAudio ==
    /\ fd.pc = "bind"
    /\ fd' = [fd EXCEPT !.pc = "returned", !.bound = TRUE]
    /\ UNCHANGED Rest

StderrNext ==
    \/ CheckModule
    \/ SaveStderr
    \/ CloseStderr
    \/ OpenTmpfile
    \/ CreatePyAudio
    \/ CloseTmpfile
    \/ RestoreStderr
    \/ CloseSaved
    \/ RemoveTmpfile
    \/ BindPyAudio

StderrSpec == StderrInit /\ [][StderrNext]_vars

TypeOK ==
    /\ audio_modules \in [Libs -> BOOLEAN]
    /\ self.handle \in {"None", "PyAudio", "True"}
    /\ self.stream \in {"None", "open"}
    /\ self.osshandle \in {"None", "open"}
    /\ self._do_play \in {"_play", "_play_pyaudio", "_play_ossaudiodev"}
    /\ self.close \in {"_close", "_close_pyaudio", "_close_ossaudiodev"}
    /\ pc \in {"start", "unwinding"} \cup Live

---------------------------------------------------------------------------
(* Vocabulary of the properties *)

\* the calls of the given names in a trace of native calls
Calls(trace, names) == SelectSeq(trace, LAMBDA n : n.f \in names)

Writes(trace) == Calls(trace, {"write"})

\* a native call of the playback path failed (not one of initialization)
DeviceFailed(trace) ==
    \E i \in 1..Len(trace) :
        trace[i].failed /\ trace[i].f \in {"open", "config", "write"}

\* the arguments the specification admits
ValidPlay == call.data[1] > 0 /\ call.rate > 0

ValidBeep ==
    /\ call.duration > 0
    /\ call.rate > 0
    /\ 0 <= call.rampH
    /\ call.rampH <= call.duration      \* ramp <= duration / 2, in halves

AllUnavailable == \A lib \in Libs : ~ audio_modules[lib]

\* the library whose implementation of play is bound
BoundLib ==
    CASE self._do_play = "_play_pyaudio" -> "pyaudio"
      [] self._do_play = "_play_ossaudiodev" -> "ossaudiodev"
      [] OTHER -> "none"

\* the number of times lib occurs in the sequence q
Count(q, lib) == Cardinality({i \in 1..Len(q) : q[i] = lib})

---------------------------------------------------------------------------
(* C1 *)

\* C1: a play with a valid buffer and rate, during which the device does
\* not fail, makes exactly one write call, into the bound backend, with the
\* channel count derived from the buffer shape (1 for a flat buffer, else
\* the size of the second dimension), and the stream is configured with
\* that count; when no backend is bound it makes no write call and returns
\* normally.
C1_OneWrite ==
    (call.op = "play" /\ ValidPlay /\ ~ DeviceFailed(call.native)) =>
        LET w == Writes(call.native)
            cfg == Calls(call.native, {"open", "config"})
            expected == IF Len(call.data) = 1 THEN 1 ELSE call.data[2]
        IN  IF BoundLib = "none"
            THEN w = <<>> /\ call.raised = "none"
            ELSE /\ Len(w) = 1
                 /\ w[1].lib = BoundLib
                 /\ w[1].channels = expected
                 /\ \E i \in 1..Len(cfg) : cfg[i].channels = expected

---------------------------------------------------------------------------
(* C2 *)

\* C2: when every backend is unavailable, the constructor and open() leave
\* a session on which no call of open, play, beep, close or __exit__ invokes
\* an initializer or makes a native call, no open, play, close or __exit__
\* raises, and no beep with admitted arguments raises.
C2_NullSessionNeverRaises ==
    (AllUnavailable
        /\ call.op \in {"__init__", "open", "play", "beep", "close", "__exit__"}) =>
        /\ call.native = <<>>
        /\ call.attempted = <<>>
        /\ self.handle = "None"
        /\ (call.op # "beep" \/ ValidBeep) => call.raised = "none"

C2_Witness ==
    /\ AllUnavailable
    /\ call.op = "beep" /\ ValidBeep
    /\ call.opened
    /\ call.raised = "none"

---------------------------------------------------------------------------
(* C3 *)

\* the libraries that open() found usable and whose initialization failed
InitFailed(lib) == audio_modules[lib] /\ call.flt[lib] # "none"

\* C3: a call that runs open() absorbs every failure of an initializer: the
\* constructor and open() raise nothing; every usable backend whose
\* initialization was tried and failed is warned about exactly once, every
\* other backend never; and when every usable backend failed, the session
\* is left with the no-op play and the no-op close.
C3_OpenAbsorbs ==
    call.opened =>
        /\ call.op \in {"__init__", "open"} => call.raised = "none"
        /\ \A lib \in Libs :
            Count(call.warned, lib) =
                IF InitFailed(lib) /\ Count(call.attempted, lib) > 0 THEN 1 ELSE 0
        /\ (\A lib \in Libs : ~ audio_modules[lib] \/ InitFailed(lib)) =>
                self._do_play = "_play" /\ self.close = "_close"

---------------------------------------------------------------------------
(* C4 *)

\* the libraries of the sequence order that are usable, in order
RECURSIVE UsableIn(_)
UsableIn(order) ==
    IF order = <<>> THEN <<>>
    ELSE (IF audio_modules[Head(order)] THEN <<Head(order)>> ELSE <<>>)
            \o UsableIn(Tail(order))

\* C4: a call that runs open() invokes initializers in the order pyaudio,
\* ossaudiodev: only usable backends are tried; if some usable backend
\* initializes, the session is bound to the first such backend in that
\* order and exactly the usable backends up to and including it were tried;
\* if none does, every usable backend was tried once, in order.
C4_FirstWorkingBackend ==
    call.opened =>
        LET order == <<"pyaudio", "ossaudiodev">>
            works(i) == audio_modules[order[i]] /\ call.flt[order[i]] = "none"
            firsts == {i \in 1..Len(order) :
                          works(i) /\ \A j \in 1..(i - 1) : ~ works(j)}
        IN  /\ \A k \in 1..Len(call.attempted) : audio_modules[call.attempted[k]]
            /\ \A i \in firsts :
                  /\ BoundLib = order[i]
                  /\ call.attempted = UsableIn(SubSeq(order, 1, i))
            /\ firsts = {} => call.attempted = UsableIn(order)

---------------------------------------------------------------------------
(* C5 *)

\* C5: a close() on a session that was already closed raises nothing and
\* releases nothing a second time: it does not terminate a PyAudio object
\* that is already terminated.
C5_CloseTwice ==
    call.op = "close" =>
        /\ call.raised = "none"
        /\ \A i \in 1..Len(call.native) :
              call.native[i].f = "terminate" => ~ call.native[i].dead

---------------------------------------------------------------------------
(* C6 *)

\* C6: after close() the handle is None, whichever backend was bound; and
\* the handle is never one that close() has already released.
C6_HandleNullAfterClose ==
    /\ call.op = "close" => self.handle = "None"
    /\ self.handle # "None" => ~ self.terminated

---------------------------------------------------------------------------
(* C7 *)

\* the session was closed, and not opened again, before the last call
ClosedBefore ==
    \/ call.pre.terminated
    \/ call.pre.close = "_close_ossaudiodev" /\ call.pre.handle = "None"

\* C7: a play (with a valid buffer and rate) on a closed session runs
\* open() before it writes, and none of its native calls goes through a
\* PyAudio object that was terminated.
C7_ReopenAfterClose ==
    (call.op = "play" /\ ValidPlay /\ ClosedBefore) =>
        /\ call.opened
        /\ \A i \in 1..Len(call.native) : ~ call.native[i].dead

---------------------------------------------------------------------------
(* C8 *)

\* C8: a play with an empty buffer or a rate <= 0, and a beep with a
\* duration <= 0, a rate <= 0 or a ramp outside [0, duration/2], raise an
\* error without running open(), invoking an initializer or making a
\* native call.
C8_InvalidArgumentsRejected ==
    ((call.op = "play" /\ ~ ValidPlay) \/ (call.op = "beep" /\ ~ ValidBeep)) =>
        /\ call.raised # "none"
        /\ ~ call.opened
        /\ call.attempted = <<>>
        /\ call.native = <<>>

---------------------------------------------------------------------------
(* C9 *)

\* C9: when a native call of the playback path (opening the stream or
\* device, configuring it, writing) fails, play and beep raise the error;
\* the only failed native calls after which a call returns normally are
\* those of an initializer inside open().
C9_DeviceFailureSurfaces ==
    /\ DeviceFailed(call.native) =>
          call.op \in {"play", "beep"} /\ call.raised = "IOError"
    /\ \A i \in 1..Len(call.native) :
          (call.native[i].failed /\ call.raised = "none") =>
              call.opened /\ call.native[i].f \in {"PyAudio", "os"}

C9_Witness ==
    /\ call.op = "play"
    /\ call.pre.handle # "None"
    /\ \E i \in 1..Len(call.native) :
          call.native[i].f = "write" /\ call.native[i].failed
    /\ call.raised = "IOError"

---------------------------------------------------------------------------
(* C10 *)

\* C10: the step that leaves the with block, whether the block ended or
\* returned (no error is passed) or an error raised by play or beep leaves
\* it (that error is passed), is __exit__, and it runs the implementation
\* of close that was bound when the block was left.
C10_ScopedClose ==
    [][(pc \in {"with", "unwinding"} /\ pc' \notin {"with", "unwinding"}) =>
          /\ call'.op = "__exit__"
          /\ call'.closed = self.close
          /\ call'.value = (IF pc = "unwinding" THEN call.raised ELSE "none")
          /\ pc = "unwinding" => call.raised # "none"]_vars

C10_Witness ==
    /\ pc = "after"
    /\ call.op = "__exit__"
    /\ call.value = "IOError"
    /\ call.closed = "_close_pyaudio"
    /\ self.stream = "None"

---------------------------------------------------------------------------
(* C11 *)

\* C11: across the calls of the module-level play and beep at most one
\* PlayAudio instance is made; the global handle refers to it from the
\* first call on and never to another one.
C11_OneGlobalSession ==
    /\ sessions <= 1
    /\ handle = sessions
    /\ call.op \in {"module.play", "module.beep"} => handle = 1

\* the pipeline has run on its buffer
Prepared_ == pipeline # <<>> /\ pipeline.stage = "done"

\* every channel of the buffer is constant
Silent(b) == Values(centered(b.frames)) = {0}

AllZero(frames) ==
    \A i \in 1..Len(frames) : \A c \in 1..Len(frames[i]) : frames[i][c] = 0

Abs(x) == IF x < 0 THEN 0 - x ELSE x

\* C12: for a buffer whose every channel is constant (all zeros among
\* them) the pipeline divides by no zero, and the quantized buffer it hands
\* to the backend is all zeros.
C12_SilenceGuard ==
    (Prepared_ /\ Silent(pipeline.data)) =>
        /\ ~pipeline.out.by_zero
        /\ pipeline.out.raised = "none" => AllZero(pipeline.out.written)

\* C13: for a buffer that is not silent, every sample after DC removal and
\* normalization has magnitude at most 1/2, every quantized sample lies in
\* [-2^14, 2^14], and no sample is outside the range of a signed 16-bit
\* integer when it is cast.
C13_HalfScale ==
    (Prepared_ /\ ~Silent(pipeline.data)) =>
        \A i \in 1..Len(pipeline.out.scaled) :
            \A c \in 1..Len(pipeline.out.scaled[i]) :
                LET x == pipeline.out.scaled[i][c]
                IN  /\ 2 * Abs(x.num) <= x.den
                    /\ Abs(rounded(x)) <= 2 ^ 14
                    /\ 0 - (2 ^ 15) <= rounded(x) /\ rounded(x) < 2 ^ 15
                    /\ Abs(pipeline.out.written[i][c]) <= 2 ^ 14

\* the written buffer is the quantized frames of the input, in order,
\* followed by extra frames of zeros, with the channels of the input
PaddedBy(extra) ==
    LET b == pipeline.data
        n == Len(b.frames)
        w == pipeline.out.written
        q == quantized(divided(b.frames), pipeline.out.cast)
    IN  /\ Len(w) = n + extra
        /\ SubSeq(w, 1, n) = q
        /\ AllZero(SubSeq(w, n + 1, Len(w)))
        /\ \A i \in 1..Len(w) : Len(w[i]) = Len(b.frames[1])
        /\ pipeline.out.flat = b.flat

\* the buffer a backend wrote is the quantized input followed by zero
\* frames amounting to about a tenth of the input frames (between n/10
\* rounded down and n/10 rounded up)
TenthOfSilence(lib) ==
    (Prepared_ /\ pipeline.lib = lib /\ pipeline.out.raised = "none") =>
        \E extra \in (Len(pipeline.data.frames) \div 10) ..
                     ((Len(pipeline.data.frames) + 9) \div 10) :
            PaddedBy(extra)

\* C15 as the specification states it: for every backend the written buffer
\* is the quantized input followed by zero frames amounting to about a
\* tenth of the input frames (between n/10 rounded down and rounded up).
C15_TenthOfSilence ==
    \A lib \in Libs : TenthOfSilence(lib)

\* C15, amended: a buffer of n frames written by the pyaudio backend is the
\* quantized input followed by n + n/10 (rounded down) zero frames, so that
\* from 10 frames on it has more than twice the frames of the input; a
\* buffer written by the ossaudiodev backend is the quantized input alone;
\* the channels are those of the input.
C15_Padding ==
    (Prepared_ /\ pipeline.out.raised = "none") =>
        LET n == Len(pipeline.data.frames)
        IN  IF pipeline.lib = "pyaudio"
            THEN PaddedBy(n + (n \div 10))
            ELSE PaddedBy(0)

\* the pyaudio backend wrote a buffer of two channels and at least 10
\* frames: more than twice, and at most 2.1 times, as many frames as the
\* input has
C15_Witness ==
    /\ Prepared_
    /\ pipeline.lib = "pyaudio"
    /\ pipeline.out.raised = "none"
    /\ Len(pipeline.data.frames) >= 10
    /\ Len(pipeline.data.frames[1]) = 2
    /\ Len(pipeline.out.written) > 2 * Len(pipeline.data.frames)
    /\ 10 * Len(pipeline.out.written) <= 21 * Len(pipeline.data.frames)
    /\ ~AllZero(pipeline.out.written)

\* C14: the ramp loop of beep runs over at most half of the buffer: for
\* every duration, rate and ramp every index it touches is inside the
\* buffer, and it raises no error.
C14_RampClamped ==
    ramp # <<>> =>
        /\ ramp.raised = "none"
        /\ ramp.touched \subseteq 0..(ramp.len - 1)
        /\ ramp.k <= ramp.len \div 2

\* C16: a play (or beep) made between the completion of open() and the next
\* close() does not run the selection loop of open() again, attempts no
\* backend and emits no warning, whichever backend the selection ended on.
C16_PlayReusesSelection ==
    (call.op \in {"play", "beep"} /\ call.pre.selected) =>
        /\ ~call.opened
        /\ call.attempted = <<>>
        /\ call.warned = <<>>

\* the library whose initializer binds the given implementations
Backend(_do_play_, close_) ==
    CASE _do_play_ = "_play_pyaudio" /\ close_ = "_close_pyaudio" -> "pyaudio"
      [] _do_play_ = "_play_ossaudiodev" /\ close_ = "_close_ossaudiodev"
            -> "ossaudiodev"
      [] _do_play_ = "_play" /\ close_ = "_close" -> "none"
      [] OTHER -> "mixed"

\* the library that made the handle
Maker(h) ==
    CASE h = "PyAudio" -> "pyaudio"
      [] h = "True" -> "ossaudiodev"
      [] OTHER -> "none"

\* C18: in every state the bindings agree with the handle: a handle that is
\* not None has _do_play and close bound to the implementations of the
\* backend that made it, and after an open() none of whose backends came up
\* the handle is None and the no-op implementations are bound.
C18_BindingsMatchHandle ==
    /\ self.handle # "None" =>
            Backend(self._do_play, self.close) = Maker(self.handle)
    /\ (call.op \in {"__init__", "open"} /\ self.handle = "None") =>
            Backend(self._do_play, self.close) = "none"

\* C19: the session never drops its reference to a stream or device that is
\* still open; after a play that returns normally, and after every close(),
\* it refers to no stream and no device.
C19_StreamNeverLost ==
    /\ ~self.lost
    /\ (call.op \in {"play", "beep", "close"} /\ call.raised = "none") =>
            self.stream = "None" /\ self.osshandle = "None"

\* C20: when an error raised inside a with block leaves the block, the
\* session is closed and the error is not suppressed: it reaches the code
\* around the block.
C20_ErrorLeavesBlock ==
    (call.op = "__exit__" /\ call.value # "none") =>
        /\ call.closed # "none"
        /\ ~suppressed(call.returned)

\* C17: when open_pyaudio has returned or raised, whichever of its steps
\* failed, descriptor 2 refers to the error stream of the caller again, the
\* duplicate that saved it is closed, no descriptor refers to the temporary
\* file, and the temporary file is removed.
C17_StderrRestored ==
    (fd # <<>> /\ fd.pc \in {"returned", "raised"}) =>
        /\ fd.table[2] = "stderr"
        /\ {f \in Fds : fd.table[f] = "stderr"} = {2}
        /\ {f \in Fds : fd.table[f] = "tmpfile"} = {}
        /\ ~fd.tmpfile

====
